---- MODULE Spec2Model ----
(***************************************************************************)
(* A model of the rbastic/webdav request handlers (server.go) running on   *)
(* the Dir backend (filesystem.go) over a POSIX directory tree.            *)
(*                                                                         *)
(* Strings are sequences of one-character strings.  Every backend call     *)
(* (Open, Create, Mkdir, Remove, Write) is one atomic step of the request  *)
(* flow that makes it; two request flows run concurrently, as net/http     *)
(* runs one goroutine per request.                                         *)
(*                                                                         *)
(* server.go carries two variants of the server, lines 1-262 and lines     *)
(* 264-525.  They agree on everything but doPut; the variable putImpl      *)
(* says which doPut the running server was built from.                     *)
(***************************************************************************)
EXTENDS Integers, Sequences, FiniteSets, TLC

\* ------------------------------------------------------------------ bounds
MaxBody == 2
MaxName == 5

\* ------------------------------------------------------- status constants
StatusOK == 200
StatusCreated == 201
StatusNoContent == 204
StatusBadRequest == 400
StatusForbidden == 403
StatusNotFound == 404
StatusMethodNotAllowed == 405
StatusConflict == 409
StatusInternalServerError == 500

\* ------------------------------------------------------------------ strings
Slash == "/"
Dot == "."
NUL == "NUL"

HasPrefix(s, p) == Len(p) <= Len(s) /\ SubSeq(s, 1, Len(p)) = p

\* strings.TrimPrefix
strTrimPrefix(s, p) == IF HasPrefix(s, p) THEN SubSeq(s, Len(p) + 1, Len(s)) ELSE s

RECURSIVE TrimLeft(_, _)
TrimLeft(s, c) == IF s # <<>> /\ Head(s) = c THEN TrimLeft(Tail(s), c) ELSE s

RECURSIVE TrimRight(_, _)
TrimRight(s, c) ==
  IF s # <<>> /\ s[Len(s)] = c THEN TrimRight(SubSeq(s, 1, Len(s) - 1), c) ELSE s

\* strings.Trim(s, "/")
Trim(s, c) == TrimRight(TrimLeft(s, c), c)

\* Server.url2path
url2path(u, prefix) ==
  IF u = <<>> THEN <<Slash>>
  ELSE LET p == strTrimPrefix(u, prefix)
       IN IF Len(p) < Len(u) THEN Trim(p, Slash) ELSE <<Slash>>

\* the elements of a slash-separated string, empty elements dropped
RECURSIVE SplitAcc(_, _, _)
SplitAcc(s, cur, acc) ==
  IF s = <<>> THEN (IF cur = <<>> THEN acc ELSE Append(acc, cur))
  ELSE IF Head(s) = Slash
       THEN SplitAcc(Tail(s), <<>>, IF cur = <<>> THEN acc ELSE Append(acc, cur))
       ELSE SplitAcc(Tail(s), Append(cur, Head(s)), acc)

Split(s) == SplitAcc(s, <<>>, <<>>)

\* path.Clean on the elements: "." dropped, ".." removes the element before
\* it; at the start it is dropped in a rooted path and kept in a relative one
RECURSIVE CleanAcc(_, _, _)
CleanAcc(segs, rooted, out) ==
  IF segs = <<>> THEN out
  ELSE LET e == Head(segs) IN
       IF e = <<Dot>> THEN CleanAcc(Tail(segs), rooted, out)
       ELSE IF e = <<Dot, Dot>>
            THEN IF out # <<>> /\ out[Len(out)] # <<Dot, Dot>>
                 THEN CleanAcc(Tail(segs), rooted, SubSeq(out, 1, Len(out) - 1))
                 ELSE IF rooted THEN CleanAcc(Tail(segs), rooted, out)
                      ELSE CleanAcc(Tail(segs), rooted, Append(out, e))
            ELSE CleanAcc(Tail(segs), rooted, Append(out, e))

RECURSIVE Join(_)
Join(segs) ==
  IF segs = <<>> THEN <<>>
  ELSE IF Len(segs) = 1 THEN Head(segs)
       ELSE Head(segs) \o <<Slash>> \o Join(Tail(segs))

\* path.Clean
Clean(s) ==
  LET rooted == s # <<>> /\ Head(s) = Slash
      out    == Join(CleanAcc(Split(s), rooted, <<>>))
  IN IF rooted THEN <<Slash>> \o out
     ELSE IF out = <<>> THEN <<Dot>> ELSE out

\* index of the last "/" of s, 0 when there is none
RECURSIVE LastSlash(_)
LastSlash(s) ==
  IF s = <<>> THEN 0
  ELSE IF s[Len(s)] = Slash THEN Len(s) ELSE LastSlash(SubSeq(s, 1, Len(s) - 1))

\* path.Dir
pathDir(s) == Clean(SubSeq(s, 1, LastSlash(s)))

HasNul(s) == \E i \in 1..Len(s) : s[i] = NUL

\* sanitizePath joining path.Clean(name), without the "/" put before name
sanitizePathUnrooted(name) ==
  IF HasNul(name) THEN [err |-> TRUE, segs |-> <<>>]
  ELSE [err |-> FALSE, segs |-> Split(Clean(name))]

\* Dir.sanitizePath on a host whose separator is "/": the error, or the
\* elements below the backend root of
\* filepath.Join(dir, path.Clean("/"+name))
sanitizePath(name) ==
  IF HasNul(name) THEN [err |-> TRUE, segs |-> <<>>]
  ELSE [err |-> FALSE, segs |-> Split(Clean(<<Slash>> \o name))]

\* Dir.sanitizePath, the string it returns for the backend root dir:
\* filepath.Join cleans the root, a separator and the cleaned name
hostPath(dir, name) ==
  LET root == IF dir = <<>> THEN <<Dot>> ELSE dir
  IN Clean(root \o <<Slash>> \o Join(sanitizePath(name).segs))

\* ------------------------------------------------------------ the host tree
\* tree maps the elements of a path below the backend root to what is linked
\* there; data maps an inode to the bytes of the file.  An inode lives while
\* it is linked or a handle on it is open (POSIX unlink semantics).
DirEnt == [kind |-> "dir", ino |-> 0]
FileEnt(i) == [kind |-> "file", ino |-> i]
NoHandle == [kind |-> "none", ino |-> 0]

Parent(p) == SubSeq(p, 1, Len(p) - 1)
Prefixes(p) == {SubSeq(p, 1, n) : n \in 0..Len(p)}
KindAt(t, p) == IF p \in DOMAIN t THEN t[p].kind ELSE "none"
Children(t, p) == {q \in DOMAIN t : Len(q) = Len(p) + 1 /\ Parent(q) = p}

NewIno(d) == CHOOSE i \in 1..(Cardinality(DOMAIN d) + 1) : i \notin DOMAIN d

\* what a client of the backend can observe of the tree
Visible(t, d) ==
  [p \in DOMAIN t |->
     IF t[p].kind = "dir" THEN [kind |-> "dir", content |-> <<>>]
     ELSE [kind |-> "file", content |-> d[t[p].ino]]]

\* os.Open through Dir.Open: a handle on what is linked at name
fsOpen(t, name) ==
  LET sp == sanitizePath(name) IN
  IF sp.err \/ sp.segs \notin DOMAIN t THEN [ok |-> FALSE, h |-> NoHandle]
  ELSE [ok |-> TRUE, h |-> t[sp.segs]]

\* Dir.Create opening without O_TRUNC: an existing file keeps its bytes
fsCreateNoTruncate(t, d, name) ==
  LET sp == sanitizePath(name)
      p  == sp.segs
      failed == [ok |-> FALSE, h |-> NoHandle, tree |-> t, data |-> d]
  IN IF sp.err THEN failed
     ELSE IF p \in DOMAIN t
          THEN IF t[p].kind = "dir" THEN failed
               ELSE [ok |-> TRUE, h |-> t[p], tree |-> t, data |-> d]
          ELSE IF p = <<>> \/ KindAt(t, Parent(p)) = "dir"
               THEN LET i == NewIno(d) IN
                    [ok |-> TRUE, h |-> FileEnt(i),
                     tree |-> [q \in DOMAIN t \cup {p} |->
                                 IF q = p THEN FileEnt(i) ELSE t[q]],
                     data |-> [j \in DOMAIN d \cup {i} |->
                                 IF j = i THEN <<>> ELSE d[j]]]
               ELSE failed

\* os.Create through Dir.Create: O_RDWR|O_CREATE|O_TRUNC
fsCreate(t, d, name) ==
  LET sp == sanitizePath(name)
      p  == sp.segs
      failed == [ok |-> FALSE, h |-> NoHandle, tree |-> t, data |-> d]
  IN IF sp.err THEN failed
     ELSE IF p \in DOMAIN t
          THEN IF t[p].kind = "dir" THEN failed
               ELSE [ok |-> TRUE, h |-> t[p], tree |-> t,
                     data |-> [d EXCEPT ![t[p].ino] = <<>>]]
          ELSE IF p = <<>> \/ KindAt(t, Parent(p)) = "dir"
               THEN LET i == NewIno(d) IN
                    [ok |-> TRUE, h |-> FileEnt(i),
                     tree |-> [q \in DOMAIN t \cup {p} |->
                                 IF q = p THEN FileEnt(i) ELSE t[q]],
                     data |-> [j \in DOMAIN d \cup {i} |->
                                 IF j = i THEN <<>> ELSE d[j]]]
               ELSE failed

\* os.MkdirAll through Dir.Mkdir
fsMkdir(t, name) ==
  LET sp == sanitizePath(name)
      p  == sp.segs
  IN IF sp.err \/ \E q \in Prefixes(p) : KindAt(t, q) = "file"
     THEN [ok |-> FALSE, tree |-> t]
     ELSE [ok |-> TRUE,
           tree |-> [q \in DOMAIN t \cup Prefixes(p) |->
                       IF q \in DOMAIN t THEN t[q] ELSE DirEnt]]

\* Dir.Remove reporting success without unlinking
fsRemoveKeeps(t, name) ==
  LET sp == sanitizePath(name)
      p  == sp.segs
  IN IF sp.err \/ p \notin DOMAIN t \/ Children(t, p) # {}
     THEN [ok |-> FALSE, tree |-> t]
     ELSE [ok |-> TRUE, tree |-> t]

\* os.Remove through Dir.Remove: unlink of a file, rmdir of an empty directory
fsRemove(t, name) ==
  LET sp == sanitizePath(name)
      p  == sp.segs
  IN IF sp.err \/ p \notin DOMAIN t \/ Children(t, p) # {}
     THEN [ok |-> FALSE, tree |-> t]
     ELSE [ok |-> TRUE, tree |-> [q \in DOMAIN t \ {p} |-> t[q]]]

\* a Write that does not advance: every chunk lands at the start of the file
fileWriteAtStart(old, off, b) ==
  LET n == IF Len(old) > Len(b) THEN Len(old) ELSE Len(b)
  IN [i \in 1..n |-> IF i <= Len(b) THEN b[i] ELSE old[i]]

\* a Write on a handle opened with O_APPEND: every chunk lands at the end
fileWriteAppend(old, off, b) == old \o b

\* File.Write of bytes b at offset off of a file holding old: a write past
\* the end leaves a hole of zero bytes
fileWrite(old, off, b) ==
  LET n == IF Len(old) > off + Len(b) THEN Len(old) ELSE off + Len(b)
  IN [i \in 1..n |->
        IF i > off /\ i <= off + Len(b) THEN b[i - off]
        ELSE IF i <= Len(old) THEN old[i] ELSE 0]

\* ------------------------------------------------------------------- state
VARIABLES
  TrimPrefix,  \* Server.TrimPrefix
  ReadOnly,    \* Server.ReadOnly
  putImpl,     \* the doPut the server has: 1 = lines 210-262, 2 = lines 472-525
  tree,        \* the directory tree below the backend root
  data,        \* the bytes of every live inode
  cl,          \* the request flows: position, request, handle, response
  order,       \* the flows in the order their handlers returned
  overlap,     \* a request was accepted while another was being handled
  san          \* a call of Dir.sanitizePath on its own: root, name, result

vars == <<TrimPrefix, ReadOnly, putImpl, tree, data, cl, order, overlap, san>>

Clients == {"c1", "c2"}
Byte == {1, 2}
Bodies == UNION {[1..n -> Byte] : n \in 0..MaxBody}
Methods == {"GET", "HEAD", "PUT", "DELETE", "PROPFIND"}
\* request URL paths: empty, a top-level name, a name one level down
URLs == {<<>>, <<"/", "d">>, <<"/", "d", "/", "a">>}
PrefixChoices == {<<>>, <<"/">>}

pD == <<<<"d">>>>
pDA == <<<<"d">>, <<"a">>>>
pB == <<<<"b">>>>

\* directory trees the server can be started on: the root holds a file b that
\* no request addresses, and d is absent, a file, an empty directory or a
\* directory holding the file a
InitTrees ==
  { [tree |-> (<<>> :> DirEnt) @@ (pB :> FileEnt(1)), data |-> <<<<2>>>>],
    [tree |-> (<<>> :> DirEnt) @@ (pB :> FileEnt(1)) @@ (pD :> FileEnt(2)),
     data |-> <<<<2>>, <<1, 2>>>>],
    [tree |-> (<<>> :> DirEnt) @@ (pB :> FileEnt(1)) @@ (pD :> DirEnt),
     data |-> <<<<2>>>>],
    [tree |-> (<<>> :> DirEnt) @@ (pB :> FileEnt(1)) @@ (pD :> DirEnt)
                @@ (pDA :> FileEnt(2)),
     data |-> <<<<2>>, <<1, 2>>>>] }

Idle ==
  [pc |-> "idle", method |-> "", url |-> <<>>, path |-> <<>>, body |-> <<>>,
   pre |-> "none", off |-> 0, exists |-> FALSE, h |-> NoHandle,
   status |-> 0, emitted |-> 0, resp |-> <<>>,
   calls |-> {}, errs |-> {}, wrote |-> FALSE, raced |-> FALSE,
   opens |-> 0, closes |-> 0, clen |-> -1, snap |-> <<>>]

\* no call of sanitizePath on its own
NoCall ==
  [pc |-> "off", dir |-> <<>>, name |-> <<>>, err |-> FALSE, out |-> <<>>]

Init ==
  /\ TrimPrefix \in PrefixChoices
  /\ ReadOnly \in BOOLEAN
  /\ putImpl \in {1, 2}
  /\ \E f \in InitTrees : tree = f.tree /\ data = f.data
  /\ cl = [c \in Clients |-> Idle]
  /\ order = <<>>
  /\ overlap = FALSE
  /\ san = NoCall

Active(c) == cl[c].pc \notin {"idle", "done"}

\* inodes that are linked in t or held open by a flow of cs
Live(t, cs) ==
  {t[p].ino : p \in {q \in DOMAIN t : t[q].kind = "file"}}
    \cup {cs[c].h.ino : c \in {x \in Clients : cs[x].h.kind = "file"}}

\* w.WriteHeader(code) followed by the handler's return
Emit(r, code) ==
  [r EXCEPT !.pc = "done", !.status = code, !.emitted = @ + 1]

\* one step of flow c: the records become ncl, the tree nt and the data nd.
\* wrote remembers that a step of the flow changed what the tree shows.
StepAll(c, ncl, nt, nd) ==
  /\ tree' = nt
  /\ cl' = [ncl EXCEPT ![c].wrote = @ \/ Visible(nt, nd) # Visible(tree, data)]
  /\ data' = [i \in DOMAIN nd \cap Live(nt, cl') |-> nd[i]]
  /\ order' = IF ncl[c].pc = "done" THEN Append(order, c) ELSE order
  /\ UNCHANGED <<TrimPrefix, ReadOnly, putImpl, san>>

Step(c, r, nt, nd) == StepAll(c, [cl EXCEPT ![c] = r], nt, nd)

\* pathExists answering true whatever Open returns
pathExistsAlways(t, name) == TRUE

\* Server.pathExists: Open, then Close
pathExists(t, name) == fsOpen(t, name).ok

\* the record after pathExists ran
AfterExists(r, found) ==
  [r EXCEPT !.calls = @ \cup {"Open"},
            !.errs = IF found THEN @ ELSE @ \cup {"Open"},
            !.opens = IF found THEN @ + 1 ELSE @,
            !.closes = IF found THEN @ + 1 ELSE @]

\* Server.pathIsDirectory: Open, Stat, IsDir, Close; a failing Stat gives false
pathIsDirectory(t, name, statFails) ==
  LET o == fsOpen(t, name) IN o.ok /\ ~statFails /\ o.h.kind = "dir"

\* a failing Stat changes the answer of pathIsDirectory only on a directory
\* (on a file the answer is false either way), so only that failure is followed
StatMatters(t, name) == fsOpen(t, name).ok /\ fsOpen(t, name).h.kind = "dir"

\* the record after pathIsDirectory ran
AfterIsDir(r, opened, statFails) ==
  IF ~opened
  THEN [r EXCEPT !.calls = @ \cup {"Open"}, !.errs = @ \cup {"Open"}]
  ELSE [r EXCEPT !.calls = @ \cup {"Open", "Stat"},
                 !.errs = IF statFails THEN @ \cup {"Stat"} ELSE @,
                 !.opens = @ + 1, !.closes = @ + 1]

\* doDelete without its ReadOnly test
doDeleteNoCheck(r, ro) == [r EXCEPT !.pc = "delExists"]

\* Server.doDelete: 403 on a read-only server, else deleteResource
doDelete(r, ro) ==
  IF ro THEN Emit(r, StatusForbidden) ELSE [r EXCEPT !.pc = "delExists"]

\* Server.doPut, its head: 403 on a read-only server, else the first backend
\* call of the variant
doPut(r, ro, impl) ==
  IF ro THEN Emit(r, StatusForbidden)
  ELSE IF impl = 1 THEN [r EXCEPT !.pc = "putMkdir"]
       ELSE [r EXCEPT !.pc = "putIsDir"]

\* doPut reporting success whatever io.Copy returns
copyStatusIgnoresError(failed, exists) ==
  IF exists THEN StatusNoContent ELSE StatusCreated

\* Server.doPut, the status after io.Copy: 409 on an error, else 204 for a
\* path that existed and 201 for a new one
copyStatus(failed, exists) ==
  IF failed THEN StatusConflict
  ELSE IF exists THEN StatusNoContent ELSE StatusCreated

\* the switch of ServeHTTP sending an unknown method to doGet
dispatchDefaultGet(r, ro, impl) ==
  CASE r.method = "DELETE" -> doDelete(r, ro)
    [] r.method = "PUT" -> doPut(r, ro, impl)
    [] OTHER -> [r EXCEPT !.pc = "serveOpen"]

\* Server.ServeHTTP, the switch on r.Method: doGet and doHead go to
\* serveResource, an unknown method is answered 400 at once
dispatch(r, ro, impl) ==
  CASE r.method \in {"GET", "HEAD"} -> [r EXCEPT !.pc = "serveOpen"]
    [] r.method = "DELETE" -> doDelete(r, ro)
    [] r.method = "PUT" -> doPut(r, ro, impl)
    [] OTHER -> Emit(r, StatusBadRequest)

\* Server.ServeHTTP up to the first backend call: the dispatch on the method,
\* the ReadOnly checks of doPut and doDelete, and url2path.  The flows are
\* named in the order their requests arrive, and a request that arrives while
\* another is being handled is one for the same URL: requests for different
\* URLs are followed one after the other.
ServeHTTP(c) ==
  /\ cl[c].pc = "idle"
  /\ c = "c2" => cl["c1"].pc # "idle"
  /\ \E m \in Methods, u \in URLs, b \in Bodies :
       /\ m # "PUT" => b = <<>>
       /\ \A o \in Clients \ {c} : Active(o) => u = cl[o].url
       /\ LET path == url2path(u, TrimPrefix)
              sp   == sanitizePath(path)
              r0   == [Idle EXCEPT !.method = m, !.url = u, !.path = path,
                                   !.body = b, !.pre = KindAt(tree, sp.segs),
                                   !.snap = Visible(tree, data)]
          IN Step(c, dispatch(r0, ReadOnly, putImpl), tree, data)
  /\ overlap' = (overlap \/ \E o \in Clients \ {c} : Active(o))

\* serveResource returning on a Stat error before f.Close() was deferred
serveStatFailedNoClose(r, handle) ==
  [Emit(r, StatusNotFound) EXCEPT
     !.calls = @ \cup {"Open", "Stat"}, !.errs = @ \cup {"Stat"},
     !.resp = r.url, !.opens = @ + 1, !.h = handle]

\* Server.serveResource, the return on a Stat error: 404 with the request
\* URI, and the deferred f.Close()
serveStatFailed(r, handle) ==
  [Emit(r, StatusNotFound) EXCEPT
     !.calls = @ \cup {"Open", "Stat"}, !.errs = @ \cup {"Stat"},
     !.resp = r.url, !.opens = @ + 1, !.closes = @ + 1]

\* Server.serveResource, first part: Open and Stat.  Stat is made on the
\* handle, so what it reports is what Open found.
ServeOpen(c) ==
  /\ cl[c].pc = "serveOpen"
  /\ \E statFails \in BOOLEAN :
       LET r == cl[c]
           o == fsOpen(tree, r.path)
       IN IF ~o.ok
          THEN /\ ~statFails
               /\ Step(c, [Emit(r, StatusNotFound) EXCEPT
                             !.calls = @ \cup {"Open"}, !.errs = @ \cup {"Open"},
                             !.resp = r.url],
                       tree, data)
          ELSE IF statFails
               THEN Step(c, serveStatFailed(r, o.h), tree, data)
               ELSE Step(c, [r EXCEPT !.pc = "serveContent", !.h = o.h,
                                      !.calls = @ \cup {"Open", "Stat"},
                                      !.opens = @ + 1],
                         tree, data)
  /\ UNCHANGED overlap

\* Server.serveResource, second part: http.ServeContent of a request without
\* conditional or range headers, then the deferred Close.  GET sends the bytes
\* of the handle, HEAD those of emptyFile.  What ServeContent makes of a
\* directory handle depends on the host: 200 or 500, no bytes.  clen is the
\* Content-Length header: the size ServeContent finds by seeking to the end
\* of what it was given, a file's length or 0 for emptyFile.
ServeContent(c) ==
  /\ cl[c].pc = "serveContent"
  /\ \E code \in {StatusOK, StatusInternalServerError} :
       LET r == cl[c] IN
       /\ code = StatusInternalServerError =>
            (r.h.kind = "dir" /\ r.method = "GET")
       /\ Step(c, [Emit(r, code) EXCEPT
                     !.resp = IF r.method = "GET" /\ r.h.kind = "file"
                              THEN data[r.h.ino] ELSE <<>>,
                     !.clen = IF code # StatusOK THEN -1
                              ELSE IF r.method = "GET" /\ r.h.kind = "file"
                                   THEN Len(data[r.h.ino]) ELSE 0,
                     !.calls = @ \cup {"Read"},
                     !.h = NoHandle, !.closes = @ + 1],
               tree, data)
  /\ UNCHANGED overlap

\* deleteResource called with setStatus false
deleteStatusUnset(r) == [r EXCEPT !.pc = "done"]

\* Server.deleteResource, its end as doDelete calls it (setStatus true):
\* 204, for a removed file and for a directory left alone
deleteStatus(r) == Emit(r, StatusNoContent)

\* Server.deleteResource: the pathExists test
DelExists(c) ==
  /\ cl[c].pc = "delExists"
  /\ LET r == cl[c]
         found == pathExists(tree, r.path)
         r1 == AfterExists(r, found)
     IN Step(c, IF found THEN [r1 EXCEPT !.pc = "delIsDir"]
                ELSE Emit(r1, StatusNotFound),
             tree, data)
  /\ UNCHANGED overlap

\* Server.deleteResource: the pathIsDirectory test; a directory is left alone
\* and reported as deleted
DelIsDir(c) ==
  /\ cl[c].pc = "delIsDir"
  /\ \E statFails \in BOOLEAN :
       LET r == cl[c]
           opened == fsOpen(tree, r.path).ok
           isDir == pathIsDirectory(tree, r.path, statFails)
           r1 == AfterIsDir(r, opened, statFails)
       IN /\ statFails => StatMatters(tree, r.path)
          /\ Step(c, IF isDir THEN deleteStatus(r1)
                     ELSE [r1 EXCEPT !.pc = "delRemove"],
                  tree, data)
  /\ UNCHANGED overlap

\* Server.deleteResource: Fs.Remove and the status
DelRemove(c) ==
  /\ cl[c].pc = "delRemove"
  /\ \E fails \in BOOLEAN :
       LET r == cl[c]
           rm == fsRemove(tree, r.path)
           r1 == [r EXCEPT !.calls = @ \cup {"Remove"}]
       IN IF fails \/ ~rm.ok
          THEN Step(c, [Emit(r1, StatusInternalServerError) EXCEPT
                          !.errs = @ \cup {"Remove"}],
                    tree, data)
          ELSE Step(c, deleteStatus(r1), rm.tree, data)
  /\ UNCHANGED overlap

\* doPut of lines 210-262: Fs.Mkdir(path.Dir(myPath)), its error only logged;
\* a failure of a Mkdir that had nothing to create changes nothing
PutMkdir(c) ==
  /\ cl[c].pc = "putMkdir"
  /\ \E fails \in BOOLEAN :
       LET r == cl[c]
           mk == fsMkdir(tree, pathDir(r.path))
           r1 == [r EXCEPT !.pc = "putExists", !.calls = @ \cup {"Mkdir"}]
       IN IF (fails /\ mk.tree # tree) \/ ~mk.ok
          THEN Step(c, [r1 EXCEPT !.errs = @ \cup {"Mkdir"}], tree, data)
          ELSE Step(c, r1, mk.tree, data)
  /\ UNCHANGED overlap

\* doPut of lines 472-525: the pathIsDirectory test
PutIsDir(c) ==
  /\ cl[c].pc = "putIsDir"
  /\ \E statFails \in BOOLEAN :
       LET r == cl[c]
           opened == fsOpen(tree, r.path).ok
           isDir == pathIsDirectory(tree, r.path, statFails)
           r1 == AfterIsDir(r, opened, statFails)
       IN /\ statFails => StatMatters(tree, r.path)
          /\ Step(c, IF isDir THEN Emit(r1, StatusMethodNotAllowed)
                     ELSE [r1 EXCEPT !.pc = "putExists"],
                  tree, data)
  /\ UNCHANGED overlap

\* doPut: exists := s.pathExists(path)
PutExists(c) ==
  /\ cl[c].pc = "putExists"
  /\ LET r == cl[c]
         found == pathExists(tree, r.path)
     IN Step(c, [AfterExists(r, found) EXCEPT !.pc = "putCreate",
                                               !.exists = found],
             tree, data)
  /\ UNCHANGED overlap

\* doPut: Fs.Create; a failure is answered with 409.  raced remembers that
\* the Create truncated a file another flow was still copying into.
PutCreate(c) ==
  /\ cl[c].pc = "putCreate"
  /\ \E fails \in BOOLEAN :
       LET r == cl[c]
           cr == fsCreate(tree, data, r.path)
           r1 == [r EXCEPT !.calls = @ \cup {"Create"}]
       IN IF fails \/ ~cr.ok
          THEN Step(c, [Emit(r1, StatusConflict) EXCEPT
                          !.errs = @ \cup {"Create"}],
                    tree, data)
          ELSE LET writers == {o \in Clients \ {c} :
                                 cl[o].pc = "putCopy" /\ cl[o].h = cr.h}
               IN StepAll(c,
                    [o \in Clients |->
                       IF o = c
                       THEN [r1 EXCEPT !.pc = "putCopy", !.h = cr.h, !.off = 0,
                                       !.opens = @ + 1,
                                       !.raced = writers # {}]
                       ELSE IF o \in writers THEN [cl[o] EXCEPT !.raced = TRUE]
                            ELSE cl[o]],
                    cr.tree, cr.data)
  /\ UNCHANGED overlap

\* io.Copy: one Read of n bytes of the body and the Write of them at the
\* offset of the handle
PutWrite(c) ==
  /\ cl[c].pc = "putCopy"
  /\ cl[c].off < Len(cl[c].body)
  /\ \E n \in 1..(Len(cl[c].body) - cl[c].off) :
       LET r == cl[c]
           chunk == SubSeq(r.body, r.off + 1, r.off + n)
       IN Step(c, [r EXCEPT !.off = @ + n, !.calls = @ \cup {"Write"}],
               tree,
               [data EXCEPT ![r.h.ino] = fileWrite(@, r.off, chunk)])
  /\ UNCHANGED overlap

\* doPut removing the file it created when io.Copy returns an error
PutCopyFailRemoves(c) ==
  /\ cl[c].pc = "putCopy"
  /\ LET r == cl[c] IN
     Step(c, [Emit(r, copyStatus(TRUE, r.exists)) EXCEPT
                !.errs = @ \cup {"Copy"}, !.h = NoHandle,
                !.closes = IF putImpl = 2 THEN @ + 2 ELSE @ + 1],
          fsRemove(tree, r.path).tree, data)
  /\ UNCHANGED overlap

\* io.Copy returns an error (the body or the connection closed early, or a
\* failing Write): 409.  doPut of lines 472-525 closes the file in the error
\* branch and again at its end, doPut of lines 210-262 only at its end.
PutCopyFail(c) ==
  /\ cl[c].pc = "putCopy"
  /\ LET r == cl[c] IN
     Step(c, [Emit(r, copyStatus(TRUE, r.exists)) EXCEPT
                !.errs = @ \cup {"Copy"}, !.h = NoHandle,
                !.closes = IF putImpl = 2 THEN @ + 2 ELSE @ + 1],
          tree, data)
  /\ UNCHANGED overlap

\* io.Copy reached the end of the body: 204 when the path existed before the
\* Create, 201 otherwise, then Close
PutFinish(c) ==
  /\ cl[c].pc = "putCopy"
  /\ cl[c].off = Len(cl[c].body)
  /\ LET r == cl[c] IN
     Step(c, [Emit(r, copyStatus(FALSE, r.exists))
                EXCEPT !.h = NoHandle, !.closes = @ + 1],
          tree, data)
  /\ UNCHANGED overlap

Next ==
  \E c \in Clients :
    \/ ServeHTTP(c)
    \/ ServeOpen(c)
    \/ ServeContent(c)
    \/ DelExists(c)
    \/ DelIsDir(c)
    \/ DelRemove(c)
    \/ PutMkdir(c)
    \/ PutIsDir(c)
    \/ PutExists(c)
    \/ PutCreate(c)
    \/ PutWrite(c)
    \/ PutCopyFail(c)
    \/ PutFinish(c)

Spec == Init /\ [][Next]_vars

\* ------------------------------------------------- sanitizePath on its own
\* the characters of a logical path: the separator, the dot, a letter, NUL
PathChars == {Slash, Dot, "a", NUL}
Names == UNION {[1..n -> PathChars] : n \in 0..MaxName}
\* backend roots: the empty Dir, an absolute and a relative directory
Roots == {<<>>, <<"/", "r">>, <<"r">>}

InitPath ==
  /\ TrimPrefix = <<>>
  /\ ReadOnly = FALSE
  /\ putImpl = 1
  /\ tree = (<<>> :> DirEnt)
  /\ data = <<>>
  /\ cl = [c \in Clients |-> Idle]
  /\ order = <<>>
  /\ overlap = FALSE
  /\ \E d \in Roots, n \in Names :
       san = [NoCall EXCEPT !.pc = "call", !.dir = d, !.name = n]

\* Dir.sanitizePath(name) on the root dir
Sanitize ==
  /\ san.pc = "call"
  /\ san' = [san EXCEPT !.pc = "returned",
                         !.err = sanitizePath(san.name).err,
                         !.out = IF sanitizePath(san.name).err THEN <<>>
                                 ELSE hostPath(san.dir, san.name)]
  /\ UNCHANGED <<TrimPrefix, ReadOnly, putImpl, tree, data, cl, order, overlap>>

NextPath == Sanitize

SpecPath == InitPath /\ [][NextPath]_vars

\* ------------------------------------------------------------ type invariant
TypeOK ==
  /\ ReadOnly \in BOOLEAN
  /\ putImpl \in {1, 2}
  /\ \A c \in Clients : cl[c].emitted <= 1 /\ cl[c].off <= Len(cl[c].body)
  /\ \A p \in DOMAIN tree : tree[p].kind = "file" => tree[p].ino \in DOMAIN data

\* ------------------------------------------------------------------ claims
Done(c) == cl[c].pc = "done"

\* both requests were handled, the second accepted after the first returned
Sequential == order = <<"c1", "c2">> /\ ~overlap

\* both requests were handled, the second accepted while the first was handled
Concurrent == Len(order) = 2 /\ overlap

\* no backend call of the request returned an error, but for an Open of a
\* path that does not exist
NoFailure(r) == r.errs \subseteq {"Open"}

Target(r) == sanitizePath(r.path).segs
ContentAt(p) == data[tree[p].ino]
HoldsFile(p, b) == KindAt(tree, p) = "file" /\ ContentAt(p) = b
Success(r) == r.status \in {StatusCreated, StatusNoContent}

PutTwice ==
  /\ Sequential /\ ~ReadOnly
  /\ cl["c1"].method = "PUT" /\ cl["c2"].method = "PUT"
  /\ cl["c1"].path = cl["c2"].path
  /\ cl["c1"].pre = "none"
  /\ NoFailure(cl["c1"]) /\ NoFailure(cl["c2"])

\* C1: two PUTs one after the other on a path that did not exist, on a server
\* that is not read-only and with no backend failure, return 201 and then 204,
\* and the path then holds exactly the second body
C1_PutTwiceOverwrites ==
  PutTwice =>
    /\ cl["c1"].status = StatusCreated
    /\ cl["c2"].status = StatusNoContent
    /\ HoldsFile(Target(cl["c2"]), cl["c2"].body)

\* the second body is shorter than the first
C1_Witness ==
  /\ PutTwice
  /\ Len(cl["c2"].body) < Len(cl["c1"].body)
  /\ cl["c2"].status = StatusNoContent

PutThenGet ==
  /\ Sequential /\ ~ReadOnly
  /\ cl["c1"].method = "PUT" /\ cl["c2"].method = "GET"
  /\ cl["c1"].path = cl["c2"].path
  /\ cl["c1"].pre = "none"
  /\ NoFailure(cl["c1"]) /\ NoFailure(cl["c2"])

\* C2: a PUT of a body on a new path returns 201, and the GET on the path that
\* follows it at once returns 200 and that body, byte for byte (server not
\* read-only, no backend call failing)
C2_PutGetRoundTrip ==
  PutThenGet =>
    /\ cl["c1"].status = StatusCreated
    /\ cl["c2"].status = StatusOK
    /\ cl["c2"].resp = cl["c1"].body

\* a body of two bytes or more came back
C2_Witness ==
  /\ PutThenGet
  /\ Len(cl["c1"].body) >= 2
  /\ cl["c2"].resp = cl["c1"].body

\* C3: a PUT whose target is a directory returns 405 and makes no Create, no
\* Mkdir and no write: the tree is as it was
C3_PutOnDirectory ==
  \A c \in Clients :
    (/\ Done(c) /\ ~overlap /\ ~ReadOnly
     /\ cl[c].method = "PUT" /\ cl[c].pre = "dir"
     /\ "Stat" \notin cl[c].errs)
    => /\ cl[c].status = StatusMethodNotAllowed
       /\ cl[c].calls \cap {"Create", "Mkdir", "Write"} = {}
       /\ ~cl[c].wrote

\* C4: on a read-only server every PUT and every DELETE returns 403 without a
\* single backend call, and the tree is as it was
C4_ReadOnlyRejects ==
  \A c \in Clients :
    (ReadOnly /\ cl[c].method \in {"PUT", "DELETE"})
    => /\ Done(c)
       /\ cl[c].status = StatusForbidden
       /\ cl[c].calls = {}
       /\ ~cl[c].wrote

\* a PUT and a DELETE were both refused
C4_Witness ==
  /\ ReadOnly
  /\ cl["c1"].method = "PUT" /\ cl["c1"].status = StatusForbidden
  /\ cl["c2"].method = "DELETE" /\ cl["c2"].status = StatusForbidden

\* flow c made a PUT and the other flow a DELETE of the same path, concurrently
PutVsDelete(c) ==
  /\ Concurrent
  /\ cl[c].method = "PUT"
  /\ \A o \in Clients \ {c} : cl[o].method = "DELETE" /\ cl[o].path = cl[c].path

\* the path holds the whole body of the PUT, or nothing
FullOrAbsent(r) ==
  \/ KindAt(tree, Target(r)) = "none"
  \/ HoldsFile(Target(r), r.body)

\* C5 as stated: once a concurrent PUT and DELETE of a path have finished,
\* the path holds the whole body of the PUT or is absent, and the PUT did not
\* report success over a partial file
C5_PutDeleteTerminal ==
  \A c \in Clients :
    (PutVsDelete(c) /\ cl[c].pre # "dir") => FullOrAbsent(cl[c])

\* C5 as amended: once a concurrent PUT and DELETE of a path have finished
\* and the PUT reported 201 or 204, the path holds the whole body of the PUT
\* or is absent
C5_PutDeleteSuccess ==
  \A c \in Clients :
    (PutVsDelete(c) /\ Success(cl[c])) => FullOrAbsent(cl[c])

\* the DELETE returned 204 and the path holds the whole body of the PUT, two
\* bytes or more
C5_Witness ==
  \E c \in Clients :
    /\ PutVsDelete(c) /\ Success(cl[c])
    /\ \A o \in Clients \ {c} : cl[o].status = StatusNoContent
    /\ Len(cl[c].body) >= 2
    /\ HoldsFile(Target(cl[c]), cl[c].body)

\* two PUTs of different bodies on the same path, concurrently, both reporting
\* success
TwoPuts ==
  /\ Concurrent
  /\ \A c \in Clients : cl[c].method = "PUT" /\ Success(cl[c])
  /\ cl["c1"].path = cl["c2"].path
  /\ cl["c1"].body # cl["c2"].body

\* C6 as stated: once two concurrent PUTs of different bodies on a path have
\* finished, the path holds the whole body of the one that finished last
C6_LastPutWins ==
  TwoPuts => HoldsFile(Target(cl["c1"]), cl[order[2]].body)

ByteOf(b, i) == IF i <= Len(b) THEN {b[i]} ELSE {}
MaxLen2(a, b) == IF Len(a) > Len(b) THEN Len(a) ELSE Len(b)

\* C6 as amended: once two concurrent PUTs of different bodies on a path have
\* finished with success, the path holds a file no longer than the longer
\* body, whose byte at a position is the byte of one of the bodies at that
\* position or the zero byte of a hole; it is the whole body of the PUT that
\* finished last when neither Create truncated a file the other PUT was still
\* copying into
C6_PositionWise ==
  TwoPuts =>
    LET p == Target(cl["c1"]) IN
    /\ KindAt(tree, p) = "file"
    /\ Len(ContentAt(p)) <= MaxLen2(cl["c1"].body, cl["c2"].body)
    /\ \A i \in 1..Len(ContentAt(p)) :
         ContentAt(p)[i] \in
           {0} \cup ByteOf(cl["c1"].body, i) \cup ByteOf(cl["c2"].body, i)
    /\ (~cl["c1"].raced /\ ~cl["c2"].raced)
         => ContentAt(p) = cl[order[2]].body

\* the file is a mixture: the whole body of neither PUT
C6_Witness ==
  /\ TwoPuts
  /\ KindAt(tree, Target(cl["c1"])) = "file"
  /\ ContentAt(Target(cl["c1"])) \notin {cl["c1"].body, cl["c2"].body}

DeleteThenGet ==
  /\ Sequential /\ ~ReadOnly
  /\ cl["c1"].method = "DELETE" /\ cl["c2"].method = "GET"
  /\ cl["c1"].path = cl["c2"].path
  /\ cl["c1"].pre = "file"
  /\ NoFailure(cl["c1"])

\* C7: a DELETE of an existing plain file whose Remove succeeds returns 204,
\* and the GET on the path after it, with no PUT in between, returns 404
C7_DeleteThenGet404 ==
  DeleteThenGet =>
    /\ cl["c1"].status = StatusNoContent
    /\ cl["c2"].status = StatusNotFound

\* the DELETE called Remove and the GET was answered
C7_Witness ==
  /\ DeleteThenGet
  /\ "Remove" \in cl["c1"].calls
  /\ cl["c2"].status = StatusNotFound

\* C8: a DELETE whose target is a directory returns 204, never calls Remove
\* and leaves the tree as it was, a failing Stat included
C8_DeleteOnDirectory ==
  \A c \in Clients :
    (/\ Done(c) /\ ~overlap /\ ~ReadOnly
     /\ cl[c].method = "DELETE" /\ cl[c].pre = "dir")
    => /\ cl[c].status = StatusNoContent
       /\ "Remove" \notin cl[c].calls
       /\ ~cl[c].wrote

\* C9: a DELETE of a path that does not exist returns 404, never calls Remove
\* and leaves the tree as it was
C9_DeleteMissing ==
  \A c \in Clients :
    (/\ Done(c) /\ ~overlap /\ ~ReadOnly
     /\ cl[c].method = "DELETE" /\ cl[c].pre = "none")
    => /\ cl[c].status = StatusNotFound
       /\ "Remove" \notin cl[c].calls
       /\ ~cl[c].wrote

\* a DELETE of a missing path was answered after its failed Open
C9_Witness ==
  \E c \in Clients :
    /\ Done(c) /\ ~overlap /\ ~ReadOnly
    /\ cl[c].method = "DELETE" /\ cl[c].pre = "none"
    /\ cl[c].errs = {"Open"}
    /\ cl[c].status = StatusNotFound

\* the logical path the resolver is to return
Resolved(u, prefix) ==
  IF u = <<>> THEN <<Slash>>
  ELSE IF ~HasPrefix(u, prefix) THEN <<Slash>>
       ELSE Trim(SubSeq(u, Len(prefix) + 1, Len(u)), Slash)

\* C10: url2path returns "/" for the empty URL path and for one that does not
\* start with the prefix, and else the URL path without the prefix and without
\* leading and trailing "/", for every prefix, the empty one included
C10_Url2Path ==
  \A c \in Clients :
    cl[c].pc # "idle" => cl[c].path = Resolved(cl[c].url, TrimPrefix)

\* the place in the tree a request's URL names, the prefix taken off
Named(r) == sanitizePath(Resolved(r.url, TrimPrefix)).segs

\* C11: a GET for a URL naming a place where no resource was, on a server of
\* any prefix and tree and with no PUT beside it, returns 404
C11_GetMissing404 ==
  (/\ Done("c1") /\ cl["c1"].method = "GET"
   /\ Named(cl["c1"]) \notin DOMAIN cl["c1"].snap
   /\ cl["c2"].method # "PUT")
  => cl["c1"].status = StatusNotFound

\* the elements of a cleaned host path
Elems(s) == CleanAcc(Split(s), s # <<>> /\ Head(s) = Slash, <<>>)
IsAbs(s) == s # <<>> /\ Head(s) = Slash

\* host path p is the root or lies below it
Inside(dir, p) ==
  LET root == IF dir = <<>> THEN <<Dot>> ELSE dir
  IN /\ IsAbs(p) = IsAbs(root)
     /\ Len(Elems(root)) <= Len(Elems(p))
     /\ SubSeq(Elems(p), 1, Len(Elems(root))) = Elems(root)

Alone(c) == IF c = "c1" THEN cl["c2"].pc = "idle" ELSE ~overlap

\* C13: a HEAD and a GET on one existing file in one backend state return the
\* same status and the same Content-Length, and the HEAD sends no body bytes
C13_HeadAsGet ==
  \A h \in Clients, g \in Clients :
    (/\ Done(h) /\ Done(g) /\ ~overlap
     /\ cl[h].method = "HEAD" /\ cl[g].method = "GET"
     /\ cl[h].path = cl[g].path /\ cl[h].snap = cl[g].snap
     /\ cl[h].pre = "file" /\ cl[h].errs = {} /\ cl[g].errs = {})
    => /\ cl[h].status = cl[g].status
       /\ cl[h].clen = cl[g].clen
       /\ cl[h].resp = <<>>

\* C14: a request whose method is none of GET, HEAD, PUT and DELETE is
\* answered 400 at once, with no backend call, and leaves the tree and the
\* files as they were
C14_UnknownMethod ==
  \A c \in Clients :
    (cl[c].pc # "idle" /\ cl[c].method \notin {"GET", "HEAD", "PUT", "DELETE"})
    => /\ Done(c) /\ cl[c].status = StatusBadRequest
       /\ cl[c].calls = {} /\ cl[c].opens = 0 /\ ~cl[c].wrote
       /\ Alone(c) => Visible(tree, data) = cl[c].snap

\* an unknown method was answered on a URL that names an existing file
C14_Witness ==
  /\ Done("c1") /\ cl["c2"].pc = "idle"
  /\ cl["c1"].method = "PROPFIND" /\ cl["c1"].pre = "file"
  /\ cl["c1"].status = StatusBadRequest

\* C15: a GET or HEAD that returned holds no handle and closed the handle of
\* its Open exactly once, after a Stat failure as after serving; when the
\* Open failed there was no handle to close
C15_ReadHandleClosedOnce ==
  \A c \in Clients :
    cl[c].method \in {"GET", "HEAD"} =>
      /\ cl[c].closes <= cl[c].opens /\ cl[c].opens <= 1
      /\ "Open" \in cl[c].errs => cl[c].opens = 0 /\ cl[c].h = NoHandle
      /\ Done(c) => /\ cl[c].h = NoHandle
                    /\ cl[c].closes = cl[c].opens
                    /\ cl[c].opens = 1 <=> "Open" \notin cl[c].errs

\* one read returned 404 after a Stat failure and one 200 after serving
C15_Witness ==
  /\ Done("c1") /\ cl["c1"].method = "GET" /\ "Stat" \in cl["c1"].errs
  /\ cl["c1"].status = StatusNotFound /\ cl["c1"].closes = 1
  /\ Done("c2") /\ cl["c2"].method = "HEAD" /\ cl["c2"].errs = {}
  /\ cl["c2"].status = StatusOK /\ cl["c2"].closes = 1

\* C16: a PUT or DELETE that returned holds no handle and closed every handle
\* it got from Open and Create exactly once
C16_WriteHandlesClosedOnce ==
  \A c \in Clients :
    (Done(c) /\ cl[c].method \in {"PUT", "DELETE"})
    => cl[c].h = NoHandle /\ cl[c].closes = cl[c].opens

\* the most steps the handler of a request in position r has left
Rank(r) ==
  CASE r.pc = "done" -> 0
    [] r.pc \in {"serveContent", "delRemove"} -> 1
    [] r.pc \in {"serveOpen", "delIsDir"} -> 2
    [] r.pc = "delExists" -> 3
    [] r.pc = "putCopy" -> 1 + Len(r.body) - r.off
    [] r.pc = "putCreate" -> 2 + Len(r.body)
    [] r.pc = "putExists" -> 3 + Len(r.body)
    [] r.pc \in {"putMkdir", "putIsDir"} -> 4 + Len(r.body)

\* C17: a handler returns with exactly one status emitted and emits none
\* before or after; a failed Create, Remove or copy, or any failure in GET
\* and HEAD, is followed by the return, not by another call; and every step
\* of a handler brings it nearer to its return, so none runs for ever
C17_OneStatus ==
  /\ [](\A c \in Clients :
          /\ Done(c) => cl[c].emitted = 1 /\ cl[c].status # 0
          /\ ~Done(c) => cl[c].emitted = 0 /\ cl[c].status = 0
          /\ cl[c].errs \cap {"Create", "Remove", "Copy"} # {} => Done(c)
          /\ (cl[c].method \in {"GET", "HEAD"} /\ cl[c].errs # {}) => Done(c))
  /\ [][\A c \in Clients :
          /\ Done(c) => /\ Done(c)' /\ cl'[c].emitted = cl[c].emitted
                        /\ cl'[c].status = cl[c].status
                        /\ cl'[c].calls = cl[c].calls
          /\ Active(c) =>
               \/ Rank(cl'[c]) < Rank(cl[c])
               \/ /\ cl'[c].pc = cl[c].pc /\ cl'[c].off = cl[c].off
                  /\ cl'[c].calls = cl[c].calls /\ cl'[c].errs = cl[c].errs]_vars

\* a DELETE removed a file and a PUT failed in its copy, each with one status
C17_Witness ==
  /\ Done("c1") /\ cl["c1"].method = "DELETE"
  /\ cl["c1"].status = StatusNoContent /\ "Remove" \in cl["c1"].calls
  /\ Done("c2") /\ cl["c2"].method = "PUT" /\ "Copy" \in cl["c2"].errs
  /\ cl["c1"].emitted = 1 /\ cl["c2"].emitted = 1

\* C18: a PUT whose copy failed returned 409, and the bytes copied before
\* the failure are the content of the file at its path; a PUT that returned
\* 201 or 204 copied its whole body and had no failing Create or copy
C18_CopyFailure ==
  \A c \in Clients :
    (Done(c) /\ cl[c].method = "PUT") =>
      /\ "Copy" \in cl[c].errs =>
           /\ cl[c].status = StatusConflict
           /\ Alone(c) =>
                HoldsFile(Target(cl[c]), SubSeq(cl[c].body, 1, cl[c].off))
      /\ Success(cl[c]) =>
           /\ cl[c].off = Len(cl[c].body)
           /\ cl[c].errs \cap {"Copy", "Create"} = {}

\* a copy failed after one byte of two, over a file that held two bytes
C18_Witness ==
  /\ Done("c1") /\ cl["c2"].pc = "idle"
  /\ cl["c1"].method = "PUT" /\ "Copy" \in cl["c1"].errs
  /\ cl["c1"].pre = "file" /\ Len(cl["c1"].body) = 2 /\ cl["c1"].off = 1
  /\ cl["c1"].status = StatusConflict
  /\ HoldsFile(Target(cl["c1"]), <<cl["c1"].body[1]>>)

\* C19: a PUT that returned left every place of the tree but its own path as
\* it was, directories included, and left the whole tree as it was when its
\* Create failed
C19_PutTouchesOnlyTarget ==
  \A c \in Clients :
    (Done(c) /\ cl[c].method = "PUT" /\ Alone(c)) =>
      /\ \A p \in (DOMAIN tree \cup DOMAIN cl[c].snap) \ {Target(cl[c])} :
           /\ p \in DOMAIN tree /\ p \in DOMAIN cl[c].snap
           /\ Visible(tree, data)[p] = cl[c].snap[p]
      /\ "Create" \in cl[c].errs => Visible(tree, data) = cl[c].snap

====
